---------------------------- MODULE Spec2Model ----------------------------
(***************************************************************************)
(* react-native-serial-transport: the native module SerialPortModule (the  *)
(* Port Session Coordinator) and the TypeScript class SerialTransport (the *)
(* Transport Facade), with the Android USB platform and the serial driver  *)
(* library as their environment.                                           *)
(*                                                                         *)
(* Threads of the program:                                                 *)
(*   - the native-modules thread runs every @ReactMethod, one at a time;   *)
(*   - the main thread runs usbReceiver.onReceive and every                *)
(*     withContext(Dispatchers.Main) block;                                *)
(*   - the coroutines launched on `scope` (Dispatchers.IO) run in          *)
(*     parallel: the read loop of startReading, the drain of read, and the *)
(*     open launched by a permission grant.                                *)
(* Fields are read and written in program order (sequential consistency).  *)
(***************************************************************************)
EXTENDS Integers, Sequences, FiniteSets, TLC

\* ---------------------------------------------------------------- bounds
\* promises handed to the module (calls made by the application)
MaxCalls == 3
\* bytes the attached devices send in total
MaxRx == 2
\* bytes one serialPort.read may return
MaxChunk == 2
\* connections usbManager.openDevice hands out before it only answers null
MaxPorts == 2
\* times a device is plugged in
MaxAttach == 2

\* ------------------------------------------------------------- constants
Null == 0
NoName == "null"
DefaultBaud == 115200
OtherBaud == 9600
Bauds == {DefaultBaud, OtherBaud}
CP210x == 4292
CH340 == 6790
FTDI == 1027
Unknown == 4660
\* usbManager.deviceList: the devices that can be attached, in the iteration
\* order of the map's values
DeviceOrder == <<"usb2", "usb3", "usb1">>
Devices == {"usb1", "usb2", "usb3"}
VendorId == [d \in Devices |-> IF d = "usb1" THEN CP210x ELSE IF d = "usb3" THEN CH340 ELSE Unknown]
\* the bytes the devices send, as Kotlin Byte values (signed)
Stream == <<-1, 65, -128, 10>>

VARIABLES
    \* SerialPortModule fields
    isConnected, serialPort, readBuffer, readJob, permissionPromise,
    \* coroutines of `scope`
    jobs, openTasks, drains,
    \* the two serial threads
    nm, main,
    \* promises handed to the module, in call order
    calls,
    \* Android USB platform and driver library
    attached, plugs, hasPerm, permReq, ports, rxCount,
    \* events sent to JS
    events,
    \* a part of a disconnect(null) the module made by itself ran since a connect call last succeeded
    torn,
    \* SerialTransport fields
    connected, deviceName, baudRate,
    \* history of the Inbound Byte Queue
    rxLog, dlvLog, logOK

coordVars == <<isConnected, serialPort, readBuffer, readJob, permissionPromise>>
taskVars == <<jobs, openTasks, drains>>
threadVars == <<nm, main>>
platVars == <<attached, plugs, hasPerm, permReq, ports, rxCount>>
facadeVars == <<connected, deviceName, baudRate>>
logVars == <<rxLog, dlvLog, logOK>>
vars == <<coordVars, taskVars, threadVars, calls, platVars, events, torn, facadeVars, logVars>>

\* ----------------------------------------------------------------- helpers
Range(s) == {s[i] : i \in DOMAIN s}

IsPrefix(s, t) == Len(s) <= Len(t) /\ SubSeq(t, 1, Len(s)) = s

\* byte.toInt() and 0xFF
ToUnsigned(b) == b % 256

Unsigned(s) == [i \in DOMAIN s |-> ToUnsigned(s[i])]

\* a poll that reads the head and leaves it in the queue
Poll_peek(q) == q

\* readBuffer.poll() leaves the tail
Poll(q) == Tail(q)

\* the place of the next settlement in the order in which JS sees them
NextOrd(cs) ==
    LET RECURSIVE MaxOrd(_)
        MaxOrd(i) == IF i = 0 THEN 0
                     ELSE IF cs[i].ord > MaxOrd(i - 1) THEN cs[i].ord ELSE MaxOrd(i - 1)
    IN  MaxOrd(Len(cs)) + 1

\* Promise.resolve / Promise.reject: the first settlement decides the promise,
\* every call is counted
Settle(cs, p, st, code, val) ==
    IF p = Null THEN cs
    ELSE IF cs[p].st # "pending" THEN [cs EXCEPT ![p].n = @ + 1]
    ELSE [cs EXCEPT ![p] = [@ EXCEPT !.n = @ + 1, !.st = st, !.code = code, !.val = val,
                                    !.ord = IF cs[p].via = "facade" THEN NextOrd(cs) ELSE 0]]

Resolve(cs, p, val) == Settle(cs, p, "resolved", "", val)

Reject(cs, p, code) == Settle(cs, p, "rejected", code, <<>>)

\* a call of a @ReactMethod with a fresh promise; via tells whether SerialTransport
\* made it ("facade") or the application called NativeSerialPort itself ("native")
NewCall(op, via, arg) ==
    [op |-> op, via |-> via, arg |-> arg, st |-> "pending", code |-> "", n |-> 0,
     val |-> <<>>, ord |-> 0, resumed |-> (via = "native"), out |-> "none"]

\* a SerialTransport call that threw before reaching the module
LocalThrow(op) ==
    [op |-> op, via |-> "facade", arg |-> <<>>, st |-> "local", code |-> "", n |-> 0,
     val |-> <<>>, ord |-> 0, resumed |-> TRUE, out |-> "raised"]

OpenPorts == {i \in DOMAIN ports : ports[i].open}

Init ==
    /\ isConnected = FALSE
    /\ serialPort = Null
    /\ readBuffer = <<>>
    /\ readJob = Null
    /\ permissionPromise = Null
    /\ jobs = <<>>
    /\ openTasks = <<>>
    /\ drains = {}
    /\ nm = [pc |-> "idle", p |-> Null]
    /\ main = [pc |-> "idle"]
    /\ calls = <<>>
    /\ attached = {}
    /\ plugs = 0
    /\ hasPerm = {}
    /\ permReq = <<>>
    /\ torn = FALSE
    /\ ports = <<>>
    /\ rxCount = 0
    /\ events = [attached |-> FALSE, detached |-> FALSE, error |-> 0]
    /\ connected = FALSE
    /\ deviceName = NoName
    /\ baudRate = Null
    /\ rxLog = <<>>
    /\ dlvLog = <<>>
    /\ logOK = TRUE

\* ------------------------------------------------ platform and driver library
\* deviceList.values, in iteration order
deviceList == SelectSeq(DeviceOrder, LAMBDA d : d \in attached)

\* the first element of a find, or null
FirstOrNull(hits) == IF hits = <<>> THEN NoName ELSE Head(hits)

\* a find that takes any device
KnownVendor_any(d) == TRUE

\* connect: the vendor ids it looks for
KnownVendor(d) == VendorId[d] = CP210x \/ VendorId[d] = CH340 \/ VendorId[d] = FTDI

\* UsbSerialProber.getDefaultProber().probeDevice(device) != null
HasDriver(d) == VendorId[d] # Unknown

\* what the platform and the driver may answer to one open sequence
OpenOutcomes(d) ==
    IF ~HasDriver(d) THEN {"no_driver"}
    ELSE IF d \notin attached \/ Len(ports) >= MaxPorts THEN {"open_null"}
    ELSE {"ok", "open_null", "port_open_io", "set_parameters_io"}

NewPort(d, isOpen, br, lines) ==
    [dev |-> d, open |-> isOpen, baud |-> br, dtr |-> lines, rts |-> lines, tx |-> 0]

\* ------------------------------------------------------------ SerialPortModule
NewJob == [pc |-> "new", cancelled |-> FALSE, port |-> Null, buf |-> <<>>]

\* startReading(): readJob = scope.launch { ... }
startReading ==
    /\ jobs' = Append(jobs, NewJob)
    /\ readJob' = Len(jobs) + 1

\* openDeviceInternal(device, promise, baudRate), with the platform's answer o;
\* cs is the promise table the caller hands over
openDeviceInternal(device, promise, br, cs, o) ==
    CASE o = "no_driver" ->
            /\ calls' = Reject(cs, promise, "NO_DRIVER")
            /\ UNCHANGED <<isConnected, serialPort, readJob, jobs, ports, torn>>
      [] o = "open_null" ->
            /\ calls' = Reject(cs, promise, "OPEN_FAILED")
            /\ UNCHANGED <<isConnected, serialPort, readJob, jobs, ports, torn>>
      [] o = "port_open_io" ->
            \* port.open(connection) throws: the driver closes the connection
            /\ ports' = Append(ports, NewPort(device, FALSE, Null, FALSE))
            /\ serialPort' = Len(ports) + 1
            /\ calls' = Reject(cs, promise, "IO_ERROR")
            /\ UNCHANGED <<isConnected, readJob, jobs, torn>>
      [] o = "set_parameters_io" ->
            \* port.setParameters throws: the port stays open
            /\ ports' = Append(ports, NewPort(device, TRUE, Null, FALSE))
            /\ serialPort' = Len(ports) + 1
            /\ calls' = Reject(cs, promise, "IO_ERROR")
            /\ UNCHANGED <<isConnected, readJob, jobs, torn>>
      [] OTHER ->
            /\ ports' = Append(ports, NewPort(device, TRUE, br, TRUE))
            /\ serialPort' = Len(ports) + 1
            /\ isConnected' = TRUE
            /\ startReading
            /\ torn' = IF promise # Null /\ cs[promise].st = "pending" THEN FALSE ELSE torn
            /\ calls' = Resolve(cs, promise, <<TRUE, device, br>>)

\* requestPermission(device, promise, baudRate): the platform notes the request
\* and the promise of the call that made it; the module keeps the promise only
requestPermission(device, promise, cs) ==
    /\ permissionPromise' = promise
    /\ permReq' = Append(permReq, [dev |-> device, by |-> promise])
    /\ calls' = cs

\* a @ReactMethod can start: the native-modules thread is free
CanCall == Len(calls) < MaxCalls /\ nm.pc = "idle"

\* connect without its isConnected test
connectRefused_never == FALSE

\* connect: the isConnected test
connectRefused == isConnected

\* connect: device selection
targetDevice(dn) ==
    IF dn # NoName THEN FirstOrNull(SelectSeq(deviceList, LAMBDA d : d = dn))
    ELSE FirstOrNull(SelectSeq(deviceList, KnownVendor))

\* connect(deviceName, baudRate, promise), called directly or by SerialTransport.connect
connect(dn, br, via) ==
    /\ CanCall
    /\ LET p == Len(calls) + 1
           cs == Append(calls, NewCall("connect", via, <<dn, br>>))
           t == targetDevice(dn)
       IN  IF connectRefused THEN
                /\ calls' = Reject(cs, p, "ALREADY_CONNECTED")
                /\ UNCHANGED <<coordVars, jobs, platVars, torn>>
           ELSE IF t = NoName THEN
                /\ calls' = Reject(cs, p, "NO_DEVICE")
                /\ UNCHANGED <<coordVars, jobs, platVars, torn>>
           ELSE IF t \in hasPerm THEN
                /\ \E o \in OpenOutcomes(t) : openDeviceInternal(t, p, br, cs, o)
                /\ UNCHANGED <<readBuffer, permissionPromise, attached, plugs, hasPerm, permReq, rxCount>>
           ELSE
                /\ requestPermission(t, p, cs)
                /\ UNCHANGED <<isConnected, serialPort, readBuffer, readJob, jobs,
                               attached, plugs, hasPerm, ports, rxCount, torn>>
    /\ UNCHANGED <<openTasks, drains, threadVars, events, facadeVars, logVars>>

\* listDevices(promise): requestPermission for every device, then resolve
listDevices(via) ==
    /\ CanCall
    /\ LET p == Len(calls) + 1
           cs == Append(calls, NewCall("listDevices", via, <<>>))
       IN  /\ permissionPromise' = IF attached = {} THEN permissionPromise ELSE p
           /\ permReq' = permReq \o [i \in DOMAIN deviceList |-> [dev |-> deviceList[i], by |-> p]]
           /\ calls' = Resolve(cs, p, deviceList)
    /\ UNCHANGED <<isConnected, serialPort, readBuffer, readJob, taskVars, threadVars,
                   attached, plugs, hasPerm, ports, rxCount, events, torn, facadeVars, logVars>>

\* s without its i-th element
Remove(s, i) == [k \in 1..(Len(s) - 1) |-> IF k < i THEN s[k] ELSE s[k + 1]]

\* usbReceiver.onReceive(ACTION_USB_PERMISSION) on the main thread: the platform's
\* decision on request i
onReceivePermission(i, granted) ==
    /\ main.pc = "idle"
    /\ i \in DOMAIN permReq
    /\ permReq[i].dev \in hasPerm => granted
    /\ permReq' = Remove(permReq, i)
    /\ IF granted THEN
            /\ hasPerm' = hasPerm \cup {permReq[i].dev}
            /\ openTasks' = Append(openTasks, permReq[i].dev)
            /\ UNCHANGED <<permissionPromise, calls>>
       ELSE
            /\ calls' = Reject(calls, permissionPromise, "PERMISSION_DENIED")
            /\ permissionPromise' = Null
            /\ UNCHANGED <<hasPerm, openTasks>>
    /\ UNCHANGED <<isConnected, serialPort, readBuffer, readJob, jobs, drains, threadVars,
                   attached, plugs, ports, rxCount, events, torn, facadeVars, logVars>>

\* the coroutine launched by a grant:
\* openDeviceInternal(device, permissionPromise); permissionPromise = null
openTask(i) ==
    /\ i \in DOMAIN openTasks
    /\ \E o \in OpenOutcomes(openTasks[i]) :
            openDeviceInternal(openTasks[i], permissionPromise, DefaultBaud, calls, o)
    /\ permissionPromise' = Null
    /\ openTasks' = Remove(openTasks, i)
    /\ UNCHANGED <<readBuffer, drains, threadVars, attached, plugs, hasPerm, permReq, rxCount,
                   events, facadeVars, logVars>>

\* UsbManager.ACTION_USB_DEVICE_ATTACHED: sendEvent(EVENT_USB_ATTACHED)
onReceiveAttached(device, permitted) ==
    /\ main.pc = "idle"
    /\ device \notin attached
    /\ plugs < MaxAttach
    /\ plugs' = plugs + 1
    /\ attached' = attached \cup {device}
    /\ hasPerm' = IF permitted THEN hasPerm \cup {device} ELSE hasPerm
    /\ events' = [events EXCEPT !.attached = TRUE]
    /\ UNCHANGED torn
    /\ UNCHANGED <<coordVars, taskVars, threadVars, calls, permReq, ports, rxCount,
                   facadeVars, logVars>>


\* the NOT_CONNECTED test with && for ||
notConnected_both == ~isConnected /\ serialPort = Null

\* write/setRTS/setDTR/setBaudRate: the test that rejects with NOT_CONNECTED
notConnected == ~isConnected \/ serialPort = Null

\* read: the test that rejects with NOT_CONNECTED
readNotConnected == ~isConnected

\* no local test
localCheck_never(via) == FALSE

\* the local test without its negation
localCheck_inverted(via) == via = "facade" /\ connected

\* SerialTransport.write/read/rawRead: if (!this.connected) throw
localCheck(via) == via = "facade" /\ ~connected

\* write(data, promise), called directly or by SerialTransport.write
write(data, via) ==
    /\ CanCall
    /\ LET p == Len(calls) + 1
           cs == Append(calls, NewCall("write", via, data))
       IN  IF localCheck(via) THEN
                calls' = Append(calls, LocalThrow("write")) /\ UNCHANGED ports
           ELSE IF notConnected THEN
                calls' = Reject(cs, p, "NOT_CONNECTED") /\ UNCHANGED ports
           ELSE IF ~ports[serialPort].open THEN
                calls' = Reject(cs, p, "WRITE_ERROR") /\ UNCHANGED ports
           ELSE \/ /\ ports' = [ports EXCEPT ![serialPort].tx = @ + Len(data)]
                   /\ calls' = Resolve(cs, p, <<Len(data)>>)
                \/ calls' = Reject(cs, p, "WRITE_ERROR") /\ UNCHANGED ports
    /\ UNCHANGED <<coordVars, taskVars, threadVars, attached, plugs, hasPerm, permReq, rxCount,
                   events, torn, facadeVars, logVars>>

\* read(timeout, promise), called directly or by SerialTransport.read / rawRead (op)
read(op, via) ==
    /\ CanCall
    /\ LET p == Len(calls) + 1
           cs == Append(calls, NewCall(op, via, <<>>))
       IN  IF localCheck(via) THEN
                calls' = Append(calls, LocalThrow(op)) /\ UNCHANGED <<drains, logOK>>
           ELSE IF readNotConnected THEN
                calls' = Reject(cs, p, "NOT_CONNECTED") /\ UNCHANGED <<drains, logOK>>
           ELSE /\ calls' = cs
                /\ drains' = drains \cup {[p |-> p, pc |-> "poll", res |-> <<>>]}
                /\ logOK' = (logOK /\ drains = {})
    /\ UNCHANGED <<coordVars, jobs, openTasks, threadVars, platVars, events, torn, facadeVars,
                   rxLog, dlvLog>>

\* a drain that pushes the head of the queue and leaves it there
drainPoll_peeking(d) ==
    /\ d \in drains
    /\ d.pc = "poll"
    /\ readBuffer # <<>>
    /\ Len(d.res) < MaxRx
    /\ drains' = (drains \ {d}) \cup {[d EXCEPT !.res = Append(@, ToUnsigned(Head(readBuffer)))]}
    /\ UNCHANGED <<coordVars, jobs, openTasks, threadVars, calls, platVars, events, torn,
                   facadeVars, logVars>>

\* a drain that polls a byte and does not push it
drainPoll_dropping(d) ==
    /\ d \in drains
    /\ d.pc = "poll"
    /\ readBuffer # <<>>
    /\ readBuffer' = Poll(readBuffer)
    /\ UNCHANGED <<isConnected, serialPort, readJob, permissionPromise, jobs, openTasks, drains,
                   threadVars, calls, platVars, events, torn, facadeVars, logVars>>

\* the coroutine of read: val byte = readBuffer.poll(); result.pushInt(byte and 0xFF)
drainPoll(d) ==
    /\ d \in drains
    /\ d.pc = "poll"
    /\ readBuffer # <<>>
    /\ drains' = (drains \ {d}) \cup {[d EXCEPT !.res = Append(@, ToUnsigned(Head(readBuffer)))]}
    /\ readBuffer' = Poll(readBuffer)
    /\ UNCHANGED <<isConnected, serialPort, readJob, permissionPromise, jobs, openTasks,
                   threadVars, calls, platVars, events, torn, facadeVars, logVars>>

\* System.currentTimeMillis() - startTime >= timeout: the window is over
drainExpire(d) ==
    /\ d \in drains
    /\ d.pc = "poll"
    /\ drains' = (drains \ {d}) \cup {[d EXCEPT !.pc = "resolve"]}
    /\ UNCHANGED <<coordVars, jobs, openTasks, threadVars, calls, platVars, events, torn,
                   facadeVars, logVars>>

\* a drain that resolves on a connected module only
drainResolve_connected(d) ==
    /\ d \in drains
    /\ d.pc = "resolve"
    /\ main.pc = "idle"
    /\ isConnected
    /\ calls' = Resolve(calls, d.p, d.res)
    /\ drains' = drains \ {d}
    /\ dlvLog' = dlvLog \o d.res
    /\ UNCHANGED <<coordVars, jobs, openTasks, threadVars, platVars, events, torn, facadeVars,
                   rxLog, logOK>>

\* withContext(Dispatchers.Main) { promise.resolve(result) }
drainResolve(d) ==
    /\ d \in drains
    /\ d.pc = "resolve"
    /\ main.pc = "idle"
    /\ calls' = Resolve(calls, d.p, d.res)
    /\ drains' = drains \ {d}
    /\ dlvLog' = dlvLog \o d.res
    /\ UNCHANGED <<coordVars, jobs, openTasks, threadVars, platVars, events, torn, facadeVars,
                   rxLog, logOK>>

\* setRTS(state, promise) and setDTR(state, promise); line is "rts" or "dtr"
setLine(line, state, via) ==
    /\ CanCall
    /\ LET p == Len(calls) + 1
           cs == Append(calls, NewCall(IF line = "rts" THEN "setRTS" ELSE "setDTR", via, <<state>>))
       IN  IF notConnected THEN
                calls' = Reject(cs, p, "NOT_CONNECTED") /\ UNCHANGED ports
           ELSE IF ~ports[serialPort].open THEN
                calls' = Reject(cs, p, IF line = "rts" THEN "RTS_ERROR" ELSE "DTR_ERROR")
                /\ UNCHANGED ports
           ELSE /\ ports' = IF line = "rts" THEN [ports EXCEPT ![serialPort].rts = state]
                                             ELSE [ports EXCEPT ![serialPort].dtr = state]
                /\ calls' = Resolve(cs, p, <<TRUE>>)
    /\ UNCHANGED <<coordVars, taskVars, threadVars, attached, plugs, hasPerm, permReq, rxCount,
                   events, torn, facadeVars, logVars>>

setRTS(state, via) == setLine("rts", state, via)

setDTR(state, via) == setLine("dtr", state, via)

\* setBaudRate(baudRate, promise), called directly or by SerialTransport.setBaudRate
setBaudRate(br, via) ==
    /\ CanCall
    /\ LET p == Len(calls) + 1
           cs == Append(calls, NewCall("setBaudRate", via, <<br>>))
       IN  IF notConnected THEN
                calls' = Reject(cs, p, "NOT_CONNECTED") /\ UNCHANGED ports
           ELSE IF ~ports[serialPort].open THEN
                calls' = Reject(cs, p, "BAUDRATE_ERROR") /\ UNCHANGED ports
           ELSE \/ /\ ports' = [ports EXCEPT ![serialPort].baud = br]
                   /\ calls' = Resolve(cs, p, <<TRUE>>)
                \/ calls' = Reject(cs, p, "BAUDRATE_ERROR") /\ UNCHANGED ports
    /\ UNCHANGED <<coordVars, taskVars, threadVars, attached, plugs, hasPerm, permReq, rxCount,
                   events, torn, facadeVars, logVars>>

\* a clear that polls once and resolves
clearStep_once(p, cs) ==
    IF readBuffer = <<>> THEN
        /\ calls' = Resolve(cs, p, <<TRUE>>)
        /\ UNCHANGED readBuffer
    ELSE
        /\ readBuffer' = Poll(readBuffer)
        /\ calls' = Resolve(cs, p, <<TRUE>>)

\* one step of readBuffer.clear() followed by promise.resolve(true): clear() polls
\* until the queue is empty
clearStep(p, cs) ==
    IF readBuffer = <<>> THEN
        /\ calls' = Resolve(cs, p, <<TRUE>>)
        /\ UNCHANGED readBuffer
    ELSE
        /\ readBuffer' = Poll(readBuffer)
        /\ calls' = cs

\* flush(promise), called directly or by SerialTransport.flush
flush(via) ==
    /\ CanCall
    /\ LET p == Len(calls) + 1
           cs == Append(calls, NewCall("flush", via, <<>>))
       IN  /\ clearStep(p, cs)
           /\ nm' = IF readBuffer = <<>> THEN nm ELSE [pc |-> "flush", p |-> p]
    /\ logOK' = FALSE
    /\ UNCHANGED <<isConnected, serialPort, readJob, permissionPromise, taskVars, main,
                   platVars, events, torn, facadeVars, rxLog, dlvLog>>

\* flush, still clearing
flushStep ==
    /\ nm.pc = "flush"
    /\ clearStep(nm.p, calls)
    /\ nm' = IF readBuffer = <<>> THEN [pc |-> "idle", p |-> Null] ELSE nm
    /\ UNCHANGED <<isConnected, serialPort, readJob, permissionPromise, taskVars, main,
                   platVars, events, torn, facadeVars, logVars>>


\* readJob?.cancel()
cancelReadJob(js) == IF readJob = Null THEN js ELSE [js EXCEPT ![readJob].cancelled = TRUE]

\* serialPort?.close() throws "Already closed" on a port that is not open
closeThrows == serialPort # Null /\ ~ports[serialPort].open

\* the part of disconnect that follows the one at pc
discNext(pc) == IF pc = "close" /\ ~closeThrows THEN "flag" ELSE "end"

\* disconnect(promise), run by any thread, in two parts:
\*   "close": readJob?.cancel(); serialPort?.close(); serialPort = null
\*   "flag":  isConnected = false; readBuffer.clear(); promise?.resolve(true)
\* js is the job table the running thread hands over
discStep(pc, p, cs, js) ==
    IF pc = "close" THEN
        /\ jobs' = cancelReadJob(js)
        /\ IF closeThrows THEN
                /\ calls' = Reject(cs, p, "DISCONNECT_ERROR")
                /\ UNCHANGED <<serialPort, ports>>
           ELSE /\ ports' = IF serialPort = Null THEN ports
                            ELSE [ports EXCEPT ![serialPort].open = FALSE]
                /\ serialPort' = Null
                /\ calls' = cs
        /\ UNCHANGED <<isConnected, readBuffer, logVars>>
    ELSE
        /\ isConnected' = FALSE
        /\ readBuffer' = <<>>
        /\ calls' = Resolve(cs, p, <<TRUE>>)
        /\ jobs' = js
        /\ rxLog' = <<>>
        /\ dlvLog' = <<>>
        /\ logOK' = (drains = {})
        /\ UNCHANGED <<serialPort, ports>>

\* disconnect(promise), called directly or by SerialTransport.disconnect: first part
disconnect(via) ==
    /\ CanCall
    /\ LET p == Len(calls) + 1
           cs == Append(calls, NewCall("disconnect", via, <<>>))
       IN  /\ discStep("close", p, cs, jobs)
           /\ nm' = IF discNext("close") = "end" THEN nm ELSE [pc |-> "flag", p |-> p]
    /\ UNCHANGED <<readJob, permissionPromise, openTasks, drains, main, attached, plugs, hasPerm,
                   permReq, rxCount, events, torn, facadeVars>>

\* disconnect(promise) on the native-modules thread: second part
disconnectStep ==
    /\ nm.pc = "flag"
    /\ discStep("flag", nm.p, calls, jobs)
    /\ nm' = [pc |-> "idle", p |-> Null]
    /\ UNCHANGED <<readJob, permissionPromise, openTasks, drains, main, attached, plugs, hasPerm,
                   permReq, rxCount, events, torn, facadeVars>>

\* UsbManager.ACTION_USB_DEVICE_DETACHED: sendEvent(EVENT_USB_DETACHED); disconnect(null)
onReceiveDetached(device) ==
    /\ main.pc = "idle"
    /\ device \in attached
    /\ attached' = attached \ {device}
    /\ hasPerm' = hasPerm \ {device}
    /\ events' = [events EXCEPT !.detached = TRUE]
    /\ torn' = TRUE
    /\ discStep("close", Null, calls, jobs)
    /\ main' = IF discNext("close") = "end" THEN main ELSE [pc |-> "flag"]
    /\ UNCHANGED <<readJob, permissionPromise, openTasks, drains, nm, plugs, permReq,
                   rxCount, facadeVars>>

\* disconnect(null) on the main thread: second part
detachedStep ==
    /\ main.pc = "flag"
    /\ discStep("flag", Null, calls, jobs)
    /\ main' = [pc |-> "idle"]
    /\ torn' = TRUE
    /\ UNCHANGED <<readJob, permissionPromise, openTasks, drains, nm, attached, plugs, hasPerm,
                   permReq, rxCount, events, facadeVars>>

\* ------------------------------------------------- the read loop of startReading
DoneJob == [pc |-> "done", cancelled |-> FALSE, port |-> Null, buf |-> <<>>]

\* while (isConnected && serialPort != null)
loopCondition == isConnected /\ serialPort # Null

\* the coroutine starts unless it was cancelled first; then the while test and the
\* call of serialPort.read(buffer, 100), which throws on a closed port and blocks
\* on an open one
loopCheck(j) ==
    /\ j \in DOMAIN jobs
    /\ jobs[j].pc \in {"new", "check"}
    /\ jobs' = [jobs EXCEPT ![j] =
                    IF jobs[j].pc = "new" /\ jobs[j].cancelled THEN DoneJob
                    ELSE IF ~loopCondition THEN DoneJob
                    ELSE IF ~ports[serialPort].open THEN [@ EXCEPT !.pc = "catch", !.port = serialPort]
                    ELSE [@ EXCEPT !.pc = "reading", !.port = serialPort]]
    /\ UNCHANGED <<coordVars, openTasks, drains, threadVars, calls, platVars, events, torn,
                   facadeVars, logVars>>

\* serialPort.read(buffer, 100) returns n bytes of an attached device's open port
\* (n = 0: the 100 ms passed); the device sends while fewer than MaxRx bytes were
\* received
loopReadReturn(j, n) ==
    /\ j \in DOMAIN jobs
    /\ jobs[j].pc = "reading"
    /\ ports[jobs[j].port].open
    /\ ports[jobs[j].port].dev \in attached
    /\ n > 0 => rxCount < MaxRx
    /\ rxCount + n <= Len(Stream)
    /\ rxCount' = rxCount + n
    /\ jobs' = [jobs EXCEPT ![j] =
                    IF n = 0 THEN [@ EXCEPT !.pc = "check", !.port = Null]
                    ELSE [@ EXCEPT !.pc = "offer", !.port = Null,
                                   !.buf = SubSeq(Stream, rxCount + 1, rxCount + n)]]
    /\ UNCHANGED <<coordVars, openTasks, drains, threadVars, calls, attached, plugs, hasPerm,
                   permReq, ports, events, torn, facadeVars, logVars>>

\* serialPort.read(buffer, 100) throws IOException: the port was closed, the device
\* is gone, or the transfer failed (the job record keeps the port of the failed read)
loopReadThrows(j) ==
    /\ j \in DOMAIN jobs
    /\ jobs[j].pc = "reading"
    /\ jobs' = [jobs EXCEPT ![j] = [@ EXCEPT !.pc = "catch"]]
    /\ UNCHANGED <<coordVars, openTasks, drains, threadVars, calls, platVars, events, torn,
                   facadeVars, logVars>>

\* readBuffer.offer(buffer[i])
loopOffer(j) ==
    /\ j \in DOMAIN jobs
    /\ jobs[j].pc = "offer"
    /\ readBuffer' = Append(readBuffer, Head(jobs[j].buf))
    /\ rxLog' = Append(rxLog, Head(jobs[j].buf))
    /\ jobs' = [jobs EXCEPT ![j] = [@ EXCEPT !.buf = Tail(@),
                    !.pc = IF Len(jobs[j].buf) = 1 THEN "check" ELSE "offer"]]
    /\ UNCHANGED <<isConnected, serialPort, readJob, permissionPromise, openTasks, drains,
                   threadVars, calls, platVars, events, torn, facadeVars, dlvLog, logOK>>

\* catch (e: IOException): if (isConnected) { withContext(Main) { sendEvent(EVENT_ERROR) };
\* disconnect(null) }; break. withContext throws CancellationException in a job that
\* is cancelled already; else the main thread runs its block.
loopCatch(j) ==
    /\ j \in DOMAIN jobs
    /\ jobs[j].pc = "catch"
    /\ IF ~isConnected \/ jobs[j].cancelled THEN
            /\ jobs' = [jobs EXCEPT ![j] = DoneJob]
            /\ UNCHANGED events
       ELSE /\ main.pc = "idle"
            /\ events' = [events EXCEPT !.error = @ + 1]
            /\ jobs' = [jobs EXCEPT ![j].pc = "event"]
    /\ UNCHANGED <<coordVars, openTasks, drains, threadVars, calls, platVars, torn, facadeVars,
                   logVars>>

\* the return of withContext to the coroutine: it throws CancellationException if
\* the job was cancelled while the block ran, and disconnect(null) is skipped
loopResume(j) ==
    /\ j \in DOMAIN jobs
    /\ jobs[j].pc = "event"
    /\ jobs' = [jobs EXCEPT ![j] = IF jobs[j].cancelled THEN DoneJob ELSE [@ EXCEPT !.pc = "close"]]
    /\ UNCHANGED <<coordVars, openTasks, drains, threadVars, calls, platVars, events, torn,
                   facadeVars, logVars>>

\* disconnect(null) in the read loop's coroutine, then break
loopDisconnect(j) ==
    /\ j \in DOMAIN jobs
    /\ jobs[j].pc \in {"close", "flag"}
    /\ torn' = TRUE
    /\ discStep(jobs[j].pc, Null, calls,
                [jobs EXCEPT ![j] = IF discNext(jobs[j].pc) = "end" THEN DoneJob
                                    ELSE [@ EXCEPT !.pc = "flag"]])
    /\ UNCHANGED <<readJob, permissionPromise, openTasks, drains, threadVars, attached, plugs,
                   hasPerm, permReq, rxCount, events, facadeVars>>

\* ---------------------------------------------------------------- SerialTransport
\* the settled call JS hears of next
NextSettled(p) ==
    /\ p \in DOMAIN calls
    /\ ~calls[p].resumed
    /\ calls[p].st # "pending"
    /\ \A q \in DOMAIN calls : (~calls[q].resumed /\ calls[q].st # "pending") => calls[p].ord <= calls[q].ord

\* the await of a SerialTransport method gave a value (it throws otherwise)
Awaited(c) == c.st = "resolved"

\* disconnect that leaves the flag as it is
cachedConnected_kept(c) ==
    IF Awaited(c) /\ c.op = "connect" THEN c.val[1] ELSE connected

\* this.connected after the method that awaited c: connect stores result.connected,
\* disconnect clears it if (result)
cachedConnected(c) ==
    IF Awaited(c) /\ c.op = "connect" THEN c.val[1]
    ELSE IF Awaited(c) /\ c.op = "disconnect" THEN FALSE ELSE connected

\* connect that stores the name it was called with
cachedDeviceName_asked(c) ==
    IF Awaited(c) /\ c.op = "connect" /\ c.val[1] THEN c.arg[1]
    ELSE IF Awaited(c) /\ c.op = "disconnect" THEN NoName ELSE deviceName

\* this.deviceName after the method that awaited c: connect stores
\* result.deviceName if (this.connected), disconnect clears it if (result)
cachedDeviceName(c) ==
    IF Awaited(c) /\ c.op = "connect" /\ c.val[1] THEN c.val[2]
    ELSE IF Awaited(c) /\ c.op = "disconnect" THEN NoName ELSE deviceName

\* setBaudRate that stores the rate without its if (result)
cachedBaudRate_always(c) ==
    IF Awaited(c) /\ c.op = "connect" /\ c.val[1] THEN c.val[3]
    ELSE IF c.op = "setBaudRate" THEN c.arg[1]
    ELSE IF Awaited(c) /\ c.op = "disconnect" THEN Null ELSE baudRate

\* this.baudRate after the method that awaited c: connect stores result.baudRate
\* if (this.connected), setBaudRate stores its argument if (result), disconnect
\* clears it if (result)
cachedBaudRate(c) ==
    IF Awaited(c) /\ c.op = "connect" /\ c.val[1] THEN c.val[3]
    ELSE IF Awaited(c) /\ c.op = "setBaudRate" /\ c.val[1] THEN c.arg[1]
    ELSE IF Awaited(c) /\ c.op = "disconnect" THEN Null ELSE baudRate

\* a read that yields the data whatever its length
outcome_chunkAlways(c) ==
    IF ~Awaited(c) THEN "raised"
    ELSE IF c.op = "connect" THEN (IF c.val[1] THEN "connected" ELSE "failed")
    ELSE IF c.op = "read" THEN "chunk"
    ELSE "returned"

\* how the SerialTransport method that awaited c ends: it raises what the module
\* rejected with; connect returns one of its two strings; read yields
\* new Uint8Array(data) if (data.length > 0) and nothing otherwise; the others
\* return the value
outcome(c) ==
    IF ~Awaited(c) THEN "raised"
    ELSE IF c.op = "connect" THEN (IF c.val[1] THEN "connected" ELSE "failed")
    ELSE IF c.op = "read" THEN (IF Len(c.val) > 0 THEN "chunk" ELSE "nothing")
    ELSE "returned"

\* the rest of a SerialTransport method after its await
resume(p) ==
    /\ NextSettled(p)
    /\ LET c == calls[p]
       IN  /\ calls' = [calls EXCEPT ![p] = [@ EXCEPT !.resumed = TRUE, !.out = outcome(c)]]
           /\ connected' = cachedConnected(c)
           /\ deviceName' = cachedDeviceName(c)
           /\ baudRate' = cachedBaudRate(c)
    /\ UNCHANGED <<coordVars, taskVars, threadVars, platVars, events, torn, logVars>>

\* --------------------------------------------------------------- specifications
\* the read loops on idle devices
Loops ==
    \/ \E j \in DOMAIN jobs : loopCheck(j)
    \/ \E j \in DOMAIN jobs : loopReadReturn(j, 0)
    \/ \E j \in DOMAIN jobs : loopReadThrows(j)
    \/ \E j \in DOMAIN jobs : loopCatch(j)
    \/ \E j \in DOMAIN jobs : loopResume(j)
    \/ \E j \in DOMAIN jobs : loopDisconnect(j)

\* the read loops on devices that send
LoopsData ==
    \/ \E j \in DOMAIN jobs : loopCheck(j)
    \/ \E j \in DOMAIN jobs, n \in 0..MaxChunk : loopReadReturn(j, n)
    \/ \E j \in DOMAIN jobs : loopReadThrows(j)
    \/ \E j \in DOMAIN jobs : loopOffer(j)
    \/ \E j \in DOMAIN jobs : loopCatch(j)
    \/ \E j \in DOMAIN jobs : loopResume(j)
    \/ \E j \in DOMAIN jobs : loopDisconnect(j)

\* the coroutines of read
Drains ==
    \/ \E d \in drains : drainPoll(d)
    \/ \E d \in drains : drainExpire(d)
    \/ \E d \in drains : drainResolve(d)

\* Sessions and permissions: one device, plugged in with or without permission;
\* the application calls connect, listDevices and disconnect on the module.
NextPermission ==
    \/ \E b \in BOOLEAN : onReceiveAttached("usb1", b)
    \/ onReceiveDetached("usb1")
    \/ detachedStep
    \/ \E i \in DOMAIN permReq, b \in BOOLEAN : onReceivePermission(i, b)
    \/ \E i \in DOMAIN openTasks : openTask(i)
    \/ \E dn \in {"usb1", NoName} : connect(dn, OtherBaud, "native")
    \/ listDevices("native")
    \/ disconnect("native")
    \/ disconnectStep
    \/ Loops

SpecPermission == Init /\ [][NextPermission]_vars

\* The byte path: a permitted device that sends; the application calls connect,
\* read, flush and disconnect on the module.
NextData ==
    \/ onReceiveAttached("usb1", TRUE)
    \/ \E dn \in {"usb1", NoName} : connect(dn, DefaultBaud, "native")
    \/ read("read", "native")
    \/ flush("native")
    \/ flushStep
    \/ disconnect("native")
    \/ disconnectStep
    \/ LoopsData
    \/ Drains

SpecData == Init /\ [][NextData]_vars

\* The port operations: a permitted device that may be unplugged; the application
\* calls every port operation of the module.
NextControl ==
    \/ onReceiveAttached("usb1", TRUE)
    \/ onReceiveDetached("usb1")
    \/ detachedStep
    \/ connect("usb1", OtherBaud, "native")
    \/ write(<<65>>, "native")
    \/ read("read", "native")
    \/ \E b \in BOOLEAN : setRTS(b, "native")
    \/ \E b \in BOOLEAN : setDTR(b, "native")
    \/ \E br \in Bauds : setBaudRate(br, "native")
    \/ disconnect("native")
    \/ disconnectStep
    \/ Loops
    \/ \E d \in drains : drainExpire(d)
    \/ \E d \in drains : drainResolve(d)

SpecControl == Init /\ [][NextControl]_vars

\* The application uses SerialTransport only: connect (no device name, default
\* rate), write and disconnect, with a device that may be absent, unplugged and
\* plugged in again.
NextFacade ==
    \/ onReceiveAttached("usb1", TRUE)
    \/ onReceiveDetached("usb1")
    \/ detachedStep
    \/ connect(NoName, DefaultBaud, "facade")
    \/ write(<<65>>, "facade")
    \/ disconnect("facade")
    \/ disconnectStep
    \/ \E p \in DOMAIN calls : resume(p)
    \/ Loops

SpecFacade == Init /\ [][NextFacade]_vars

\* Device selection: three devices, one of them of an unknown vendor, plugged in
\* and unplugged in any order; the application calls connect with and without a
\* device name, and disconnect. The read loops are not scheduled here: selection
\* reads the attached-device list and the connected flag only.
NextSelect ==
    \/ \E d \in Devices : onReceiveAttached(d, TRUE)
    \/ \E d \in Devices : onReceiveDetached(d)
    \/ detachedStep
    \/ \E dn \in Devices \cup {NoName} : connect(dn, DefaultBaud, "native")
    \/ disconnect("native")
    \/ disconnectStep

SpecSelect == Init /\ [][NextSelect]_vars

\* SpecData with coroutines and threads that keep running: a read loop, a read
\* and a flush go on, and a disconnect that began ends. What the device sends and
\* what the application calls is not forced.
SpecDataFair ==
    /\ SpecData
    /\ WF_vars(\E j \in DOMAIN jobs : loopCheck(j))
    /\ WF_vars(\E j \in DOMAIN jobs : loopOffer(j))
    /\ WF_vars(\E j \in DOMAIN jobs : loopCatch(j))
    /\ WF_vars(\E j \in DOMAIN jobs : loopResume(j))
    /\ WF_vars(\E j \in DOMAIN jobs : loopDisconnect(j))
    /\ WF_vars(\E d \in drains : drainExpire(d))
    /\ WF_vars(\E d \in drains : drainResolve(d))
    /\ WF_vars(flushStep)
    /\ WF_vars(disconnectStep)

\* The cache of SerialTransport: the application calls connect (without a device
\* name, at either rate), setBaudRate and disconnect on SerialTransport; the
\* device may be absent, unplugged and plugged in again. The read loops are not
\* scheduled here: the cache is written from the results of the calls only.
NextCache ==
    \/ onReceiveAttached("usb1", TRUE)
    \/ onReceiveDetached("usb1")
    \/ detachedStep
    \/ \E br \in Bauds : connect(NoName, br, "facade")
    \/ \E br \in Bauds : setBaudRate(br, "facade")
    \/ disconnect("facade")
    \/ disconnectStep
    \/ \E p \in DOMAIN calls : resume(p)

SpecCache == Init /\ [][NextCache]_vars

\* The cache of SerialTransport with permission requests: the device is plugged in
\* with or without access permission and the platform decides the requests; the
\* application calls connect, setBaudRate and disconnect on SerialTransport. The
\* read loops are not scheduled here.
NextCachePermission ==
    \/ \E b \in BOOLEAN : onReceiveAttached("usb1", b)
    \/ \E i \in DOMAIN permReq, b \in BOOLEAN : onReceivePermission(i, b)
    \/ \E i \in DOMAIN openTasks : openTask(i)
    \/ connect(NoName, OtherBaud, "facade")
    \/ \E br \in Bauds : setBaudRate(br, "facade")
    \/ disconnect("facade")
    \/ disconnectStep
    \/ \E p \in DOMAIN calls : resume(p)

SpecCachePermission == Init /\ [][NextCachePermission]_vars

\* The byte path through SerialTransport: a permitted device that sends; the
\* application calls connect, write, read, rawRead and disconnect on
\* SerialTransport.
NextFacadeData ==
    \/ onReceiveAttached("usb1", TRUE)
    \/ connect(NoName, DefaultBaud, "facade")
    \/ write(<<65>>, "facade")
    \/ \E op \in {"read", "rawRead"} : read(op, "facade")
    \/ disconnect("facade")
    \/ disconnectStep
    \/ \E p \in DOMAIN calls : resume(p)
    \/ LoopsData
    \/ Drains

SpecFacadeData == Init /\ [][NextFacadeData]_vars

\* The window of a read: a permitted device that sends and may be unplugged; the
\* application calls connect, read, flush and disconnect on the module. The read
\* loops queue the bytes one at a time; their error handling is not scheduled
\* here: a coroutine of read meets the loops at the queue only.
NextWindow ==
    \/ onReceiveAttached("usb1", TRUE)
    \/ onReceiveDetached("usb1")
    \/ detachedStep
    \/ connect("usb1", DefaultBaud, "native")
    \/ read("read", "native")
    \/ flush("native")
    \/ flushStep
    \/ disconnect("native")
    \/ disconnectStep
    \/ \E j \in DOMAIN jobs : loopCheck(j)
    \/ \E j \in DOMAIN jobs : loopReadReturn(j, 1)
    \/ \E j \in DOMAIN jobs : loopOffer(j)
    \/ Drains

SpecWindow == Init /\ [][NextWindow]_vars

\* ------------------------------------------------------------------- properties
\* the call made in this step, if it is a call of op
Issued(op) == Len(calls') = Len(calls) + 1 /\ calls'[Len(calls')].op = op

\* a read loop that has started and not ended
Running(j) == jobs[j].pc \in {"check", "reading", "offer", "catch", "event"}

\* no thread is inside disconnect
NoDisconnectInProgress ==
    /\ nm.pc # "flag"
    /\ main.pc # "flag"
    /\ \A j \in DOMAIN jobs : jobs[j].pc \notin {"close", "flag"}

\* C1: in every reachable state at most one device handle is open (opened and not
\* yet closed), whatever the interleaving of connect calls, permission decisions,
\* detach events and disconnect calls.
C1_AtMostOneOpenHandle == Cardinality(OpenPorts) <= 1

\* C2: a connect call made while the session is Connected is rejected with
\* ALREADY_CONNECTED and changes nothing of the session: the port, the connected
\* flag, the queue, the read loops, the drains and the permission state are as before.
C2_ConnectWhileConnected ==
    [][(isConnected /\ Issued("connect")) =>
            /\ calls'[Len(calls')].st = "rejected"
            /\ calls'[Len(calls')].code = "ALREADY_CONNECTED"
            /\ UNCHANGED <<coordVars, taskVars, platVars>>]_vars

\* C2 happens: a connect was refused while a loop runs and bytes are queued
C2_Witness ==
    /\ isConnected
    /\ readBuffer # <<>>
    /\ \E j \in DOMAIN jobs : Running(j)
    /\ \E p \in DOMAIN calls : calls[p].op = "connect" /\ calls[p].code = "ALREADY_CONNECTED"

\* the result a read in flight has gathered so far
InFlight == IF drains = {} THEN <<>> ELSE (CHOOSE d \in drains : TRUE).res

\* C3: within one session, with no flush and no overlapping reads, the results of
\* the successive reads, concatenated (the read in flight included), are a prefix of
\* the bytes the read loop appended to the queue, as unsigned values: no byte is
\* delivered twice, out of order, or skipped.
C3_ReadsDeliverPrefix == logOK => IsPrefix(dlvLog \o InFlight, Unsigned(rxLog))

\* C3 happens: two successive reads each delivered bytes
C3_Witness ==
    /\ logOK
    /\ \E p, q \in DOMAIN calls :
            /\ p < q
            /\ calls[p].op = "read" /\ calls[p].st = "resolved" /\ calls[p].val # <<>>
            /\ calls[q].op = "read" /\ calls[q].st = "resolved" /\ calls[q].val # <<>>
            /\ dlvLog = calls[p].val \o calls[q].val

\* C4: disconnect stops the read loop before it releases the handle: no read loop is
\* inside a device read on a closed port, and once the module is Disconnected with no
\* disconnect in progress no read loop has a byte left to append.
C4_LoopStoppedBeforeClose ==
    /\ \A j \in DOMAIN jobs : jobs[j].pc = "reading" => ports[jobs[j].port].open
    /\ (~isConnected /\ NoDisconnectInProgress) => \A j \in DOMAIN jobs : jobs[j].pc # "offer"

PortOps == {"write", "read", "setRTS", "setDTR", "setBaudRate"}

\* C5: while the module is Disconnected, write, read, setRTS, setDTR and setBaudRate
\* are rejected with NOT_CONNECTED and change nothing but the promise: no port is
\* written or set, the queue is not consumed, no drain is started.
C5_DisconnectedRejects ==
    [][(~isConnected /\ Len(calls') = Len(calls) + 1 /\ calls'[Len(calls')].op \in PortOps) =>
            /\ calls'[Len(calls')].st = "rejected"
            /\ calls'[Len(calls')].code = "NOT_CONNECTED"
            /\ UNCHANGED <<coordVars, taskVars, threadVars, platVars, events, torn, logVars>>]_vars

\* C5 happens: the module is Disconnected and still holds the port of a failed
\* connect, and a write and a setBaudRate that followed it were refused
C5_Witness ==
    /\ ~isConnected
    /\ serialPort # Null
    /\ \E c, p, q \in DOMAIN calls :
            /\ c < p /\ c < q
            /\ calls[c].op = "connect" /\ calls[c].code = "IO_ERROR"
            /\ calls[p].op = "write" /\ calls[p].code = "NOT_CONNECTED"
            /\ calls[q].op = "setBaudRate" /\ calls[q].code = "NOT_CONNECTED"

\* this step is a SerialTransport.write made next after a SerialTransport.connect
\* that has returned its success string
WriteAfterConnect ==
    /\ Issued("write")
    /\ calls'[Len(calls')].via = "facade"
    /\ calls # <<>>
    /\ calls[Len(calls)].op = "connect"
    /\ calls[Len(calls)].via = "facade"
    /\ calls[Len(calls)].out = "connected"

\* C6 as claimed: a SerialTransport.write made immediately after a
\* SerialTransport.connect returned success never fails with NotConnected, neither
\* locally nor from the module.
C6_WriteAfterConnectNeverNotConnected ==
    [][WriteAfterConnect =>
            /\ calls'[Len(calls')].st # "local"
            /\ calls'[Len(calls')].code # "NOT_CONNECTED"]_vars

\* C6 amended: such a write never fails locally, and the module rejects it with
\* NOT_CONNECTED only if the module began a disconnect by itself (usb-detached or
\* read loop I/O error) after that connect succeeded.
C6_WriteAfterConnect ==
    [][WriteAfterConnect =>
            /\ calls'[Len(calls')].st # "local"
            /\ (calls'[Len(calls')].code = "NOT_CONNECTED" => torn)]_vars

\* C6 happens: a write followed a successful connect and was accepted by the port
C6_Witness ==
    \E p \in DOMAIN calls :
        /\ p + 1 \in DOMAIN calls
        /\ calls[p].op = "connect" /\ calls[p].via = "facade" /\ calls[p].out = "connected"
        /\ calls[p + 1].op = "write" /\ calls[p + 1].via = "facade"
        /\ calls[p + 1].st = "resolved"

\* C7: SerialTransport.connect never raises: when the module's connect fails, it
\* returns the failure string.
C7_FacadeConnectNeverRaises ==
    \A p \in DOMAIN calls :
        (calls[p].op = "connect" /\ calls[p].via = "facade" /\ calls[p].resumed /\ calls[p].st = "rejected")
            => calls[p].out = "failed"

\* C8: a connect call is never settled twice, and it is unsettled only while the
\* permission request it made is undecided or a grant is being processed.
C8_ConnectSettledOnce ==
    \A p \in DOMAIN calls :
        calls[p].op = "connect" =>
            /\ calls[p].n <= 1
            /\ calls[p].n = 0 => \/ \E i \in DOMAIN permReq : permReq[i].by = p
                                 \/ openTasks # <<>>

\* C9: a connect call that needs permission, made while a connect call is pending
\* on a permission decision, is rejected and leaves the pending request with the
\* first call.
C9_SecondConnectRejected ==
    [][(/\ Issued("connect")
        /\ ~isConnected
        /\ targetDevice(calls'[Len(calls')].arg[1]) # NoName
        /\ targetDevice(calls'[Len(calls')].arg[1]) \notin hasPerm
        /\ permissionPromise # Null
        /\ calls[permissionPromise].op = "connect"
        /\ calls[permissionPromise].st = "pending") =>
            /\ calls'[Len(calls')].st = "rejected"
            /\ permissionPromise' = permissionPromise]_vars

\* C10: when the platform denies the permission a connect call requested, that call
\* is rejected with PERMISSION_DENIED, no port is opened, no read loop is started
\* and a Disconnected module stays Disconnected.
C10_DeniedConnectRejected ==
    [][\A i \in DOMAIN permReq :
            (/\ permReq' = Remove(permReq, i)
             /\ openTasks' = openTasks
             /\ calls[permReq[i].by].op = "connect") =>
                /\ calls'[permReq[i].by].st = "rejected"
                /\ calls'[permReq[i].by].code = "PERMISSION_DENIED"
                /\ ports' = ports
                /\ jobs' = jobs
                /\ ~isConnected => ~isConnected']_vars

\* the connect calls this step resolves
ConnectsResolved ==
    {p \in DOMAIN calls' :
        /\ calls'[p].op = "connect"
        /\ calls'[p].st = "resolved"
        /\ (p \in DOMAIN calls => calls[p].st = "pending")}

\* C11: when a connect call succeeds, the port opened for it is set to the baud
\* rate the call passed, and the result reports that rate, whether the device was
\* opened by connect itself or after a permission grant.
C11_BaudRateOfConnect ==
    [][\A p \in ConnectsResolved :
            /\ calls'[p].val[3] = calls'[p].arg[2]
            /\ Len(ports') = Len(ports) + 1
            /\ ports'[Len(ports')].baud = calls'[p].arg[2]]_vars

\* the attached devices a connect(dn, ...) may take
Candidates(dn) ==
    IF dn # NoName THEN {d \in attached : d = dn}
    ELSE {d \in attached : VendorId[d] \in {CP210x, CH340, FTDI}}

\* the place of a device in the attached-device list
Pos(d) == CHOOSE i \in DOMAIN DeviceOrder : DeviceOrder[i] = d

FirstCandidate(dn) == CHOOSE d \in Candidates(dn) : \A e \in Candidates(dn) : Pos(d) <= Pos(e)

\* C12: a connect call made while Disconnected is rejected with NO_DEVICE exactly
\* when no attached device is a candidate (none of that name; or, without a name,
\* none of a known vendor id), and then nothing is opened or requested; otherwise
\* the device it opens, or asks permission for, is the named one or the first
\* attached device of a known vendor id.
C12_DeviceSelection ==
    [][(Issued("connect") /\ ~isConnected) =>
            LET c == calls'[Len(calls')]
                dn == c.arg[1]
            IN  /\ (c.code = "NO_DEVICE") <=> (Candidates(dn) = {})
                /\ c.code = "NO_DEVICE" =>
                        /\ c.st = "rejected"
                        /\ UNCHANGED <<coordVars, taskVars, platVars>>
                /\ Len(ports') > Len(ports) => ports'[Len(ports')].dev = FirstCandidate(dn)
                /\ Len(permReq') > Len(permReq) => permReq'[Len(permReq')].dev = FirstCandidate(dn)]_vars

\* C12 happens: with only a device of an unknown vendor attached a connect without
\* a name found no device, and with a known one plugged in after it the next
\* connect opened that one
C12_Witness ==
    /\ attached = {"usb2", "usb3"}
    /\ \E p, q \in DOMAIN calls :
            /\ p < q
            /\ calls[p].op = "connect" /\ calls[p].arg[1] = NoName /\ calls[p].code = "NO_DEVICE"
            /\ calls[q].op = "connect" /\ calls[q].arg[1] = NoName /\ calls[q].st = "resolved"
            /\ calls[q].val[2] = "usb3"
    /\ serialPort # Null
    /\ ports[serialPort].dev = "usb3"

\* the errors of the steps of opening
OpenErrors == {"NO_DRIVER", "OPEN_FAILED", "IO_ERROR"}

\* the connect calls this step rejects because a step of opening failed
ConnectsFailedOpening ==
    {p \in DOMAIN calls' :
        /\ calls'[p].op = "connect"
        /\ calls'[p].st = "rejected"
        /\ calls'[p].code \in OpenErrors
        /\ (p \in DOMAIN calls => calls[p].st = "pending")}

\* C13: when a step of opening fails (no driver, no connection, port.open or
\* setParameters throwing) the connect call is rejected and the module is left
\* Disconnected: isConnected is false and no read loop was started.
C13_FailedOpenLeavesDisconnected ==
    [][\A p \in ConnectsFailedOpening :
            /\ ~isConnected'
            /\ jobs' = jobs
            /\ readJob' = readJob]_vars

\* the disconnect calls this step resolves
DisconnectsResolved ==
    {p \in DOMAIN calls' :
        /\ calls'[p].op = "disconnect"
        /\ calls'[p].st = "resolved"
        /\ (p \in DOMAIN calls => calls[p].st = "pending")}

\* C14: a disconnect call made with no session open (isConnected false, no port
\* open), as the second of two in a row is, is not rejected and changes neither the
\* flag, the ports, nor the queue; and when a disconnect call resolves, the module
\* is Disconnected, holds no port and its queue is empty.
C14_DisconnectIdempotent ==
    [][/\ (Issued("disconnect") /\ ~isConnected /\ OpenPorts = {}) =>
                /\ calls'[Len(calls')].st # "rejected"
                /\ UNCHANGED <<isConnected, readBuffer, ports>>
       /\ \A p \in DisconnectsResolved :
                /\ ~isConnected'
                /\ serialPort' = Null
                /\ readBuffer' = <<>>]_vars

\* this step is the platform's notification that device d was unplugged
Detached(d) == d \in attached /\ attached' = attached \ {d}

\* C15: on a detach notification the usb-detached event is emitted; if the device
\* is the one of the open session, the module disconnects (the port is closed at
\* once); if it is another device, the open session stays as it is: flag, port,
\* queue and read loops unchanged and no disconnect under way.
C15_DetachOfOpenDeviceOnly ==
    [][\A d \in Devices :
            (Detached(d) /\ isConnected /\ serialPort # Null /\ ports[serialPort].open) =>
                /\ events'.detached
                /\ ports[serialPort].dev = d =>
                        /\ serialPort' = Null
                        /\ ~ports'[serialPort].open
                /\ ports[serialPort].dev # d =>
                        /\ UNCHANGED <<isConnected, serialPort, readBuffer, ports, jobs>>
                        /\ main'.pc = "idle"]_vars

\* C16: whenever a read loop has caught an I/O error while isConnected is true (and
\* no disconnect has cancelled the loop), the module eventually is Disconnected with
\* the port released and the queue cleared.
C16_ReadErrorTearsDown ==
    (\E j \in DOMAIN jobs : jobs[j].pc = "catch" /\ isConnected /\ ~jobs[j].cancelled)
        ~> (~isConnected /\ serialPort = Null /\ readBuffer = <<>>)

\* every SerialTransport call has returned or raised, and no thread is inside a
\* module method
FacadeQuiet ==
    /\ nm.pc = "idle"
    /\ \A p \in DOMAIN calls : calls[p].resumed

CacheWriter(p) ==
    /\ p \in DOMAIN calls
    /\ calls[p].via = "facade" /\ calls[p].resumed /\ calls[p].st = "resolved"
    /\ calls[p].op \in {"connect", "setBaudRate", "disconnect"}

LastCacheWriter(p) ==
    /\ CacheWriter(p)
    /\ \A q \in DOMAIN calls : CacheWriter(q) => calls[q].ord <= calls[p].ord

\* C18: after a SerialTransport.connect whose connect of the module succeeded,
\* isConnected() is true and getDeviceName() and getBaudRate() return the device
\* name and the rate of the result, until the next successful setBaudRate or
\* disconnect of SerialTransport.
C18_ConnectCachesResult ==
    \A p \in DOMAIN calls :
        (LastCacheWriter(p) /\ calls[p].op = "connect")
            => /\ connected
               /\ deviceName = calls[p].val[2]
               /\ baudRate = calls[p].val[3]

\* C18 happens: connect without a name has returned, the accessors give the name
\* of the device the module chose and the rate of the call, the second such
\* connection after a setBaudRate in the first
C18_Witness ==
    \E p, q \in DOMAIN calls :
        /\ q < p
        /\ CacheWriter(q) /\ calls[q].op = "setBaudRate"
        /\ LastCacheWriter(p) /\ calls[p].op = "connect"
        /\ calls[p].arg = <<NoName, OtherBaud>>
        /\ deviceName = "usb1" /\ baudRate = OtherBaud /\ connected

\* the SerialTransport method that awaited call p goes on in this step
Returns(p) == ~calls[p].resumed /\ Len(calls') = Len(calls) /\ calls'[p].resumed

\* C20: SerialTransport.setBaudRate(r): if the module's setBaudRate succeeds,
\* getBaudRate() returns r afterwards; if it fails, the cached rate, device name
\* and connected flag are all unchanged.
C20_SetBaudRateCache ==
    [][\A p \in DOMAIN calls :
            (Returns(p) /\ calls[p].op = "setBaudRate")
                => IF calls[p].st = "resolved"
                   THEN baudRate' = calls[p].arg[1] /\ calls'[p].out = "returned"
                   ELSE UNCHANGED <<connected, deviceName, baudRate>> /\ calls'[p].out = "raised"]_vars

\* C20 happens: after a connect at the default rate one setBaudRate to the other
\* rate succeeded and the next one, back to the default rate, failed: the cache
\* holds the other rate
C20_Witness ==
    /\ Len(calls) = 3
    /\ calls[1].op = "connect" /\ calls[1].out = "connected" /\ calls[1].val[3] = DefaultBaud
    /\ calls[2].op = "setBaudRate" /\ calls[2].arg = <<OtherBaud>> /\ calls[2].out = "returned"
    /\ calls[3].op = "setBaudRate" /\ calls[3].arg = <<DefaultBaud>> /\ calls[3].out = "raised"
    /\ baudRate = OtherBaud /\ connected /\ deviceName = "usb1"

\* C19: whenever isConnected() of SerialTransport is false, getDeviceName() and
\* getBaudRate() both return undefined, after any sequence of connect, setBaudRate
\* and disconnect calls of SerialTransport, successful or failing.
C19_DisconnectedCacheEmpty ==
    ~connected => (deviceName = NoName /\ baudRate = Null)

LocalOps == {"write", "read", "rawRead"}

\* C21: when the cache of SerialTransport says disconnected, its write, read and
\* rawRead each raise the not-connected error locally and make no call of the
\* module: nothing but the record of the call changes.
C21_LocalFastFail ==
    [][(~connected /\ Len(calls') = Len(calls) + 1
            /\ calls'[Len(calls')].via = "facade" /\ calls'[Len(calls')].op \in LocalOps)
        => /\ calls'[Len(calls')].st = "local"
           /\ calls'[Len(calls')].out = "raised"
           /\ UNCHANGED <<coordVars, taskVars, threadVars, platVars, events, torn, facadeVars, logVars>>]_vars

\* C21 happens: after a disconnect of SerialTransport returned, a write, a read and
\* a rawRead raised locally
C21_Witness ==
    /\ ~connected
    /\ \E p \in DOMAIN calls : calls[p].op = "connect" /\ calls[p].out = "connected"
    /\ \E p \in DOMAIN calls : calls[p].op = "disconnect" /\ calls[p].out = "returned"
    /\ \E p \in DOMAIN calls : calls[p].op \in LocalOps /\ calls[p].st = "local"

\* the drain of read call p
DrainOf(ds, p) == {d \in ds : d.p = p}

\* C22: a read on a Connected session is a time-boxed drain. Its promise stays
\* pending while the window is open, also when bytes are queued; it is resolved
\* after the window with the result gathered; the result grows only by the byte the
\* drain removes from the head of the queue, and a byte that a drain removes goes
\* to its result, so the result is the bytes removed in the window, in queue order,
\* and is empty when the queue stayed empty.
C22_ReadIsTimeBoxedDrain ==
    [][/\ \A d \in drains : calls[d.p].st = "pending" /\ calls[d.p].op = "read"
       /\ \A d \in drains :
            \/ d \in drains'
            \/ /\ d.pc = "poll"
               /\ readBuffer # <<>>
               /\ readBuffer' = Tail(readBuffer)
               /\ DrainOf(drains', d.p) =
                    {[d EXCEPT !.res = Append(d.res, Head(readBuffer) % 256)]}
            \/ /\ d.pc = "poll"
               /\ DrainOf(drains', d.p) = {[d EXCEPT !.pc = "resolve"]}
               /\ UNCHANGED <<readBuffer, calls>>
            \/ /\ d.pc = "resolve"
               /\ DrainOf(drains', d.p) = {}
               /\ calls'[d.p].st = "resolved"
               /\ calls'[d.p].val = d.res
       /\ (Len(readBuffer') < Len(readBuffer) /\ nm.pc # "flush" /\ UNCHANGED <<nm, main, jobs, calls>>)
            => \E d \in drains : d \notin drains']_vars

\* C22 happens: on one session a read returned the two bytes that were queued and
\* the next read, on the idle session, returned an empty result
C22_Witness ==
    /\ isConnected
    /\ drains = {}
    /\ \E p \in DOMAIN calls :
            /\ p + 1 \in DOMAIN calls
            /\ calls[p].op = "read" /\ calls[p].st = "resolved" /\ calls[p].val = <<255, 65>>
            /\ calls[p + 1].op = "read" /\ calls[p + 1].st = "resolved" /\ calls[p + 1].val = <<>>

\* read call p was accepted: its coroutine runs
ReadAccepted(p) == p \in DOMAIN calls /\ DrainOf(drains, p) # {}

flushFrame == <<isConnected, serialPort, readJob, permissionPromise, jobs, openTasks, drains,
                main, platVars, events, torn, facadeVars>>

\* C24: flush always succeeds, Connected or Disconnected: it is never rejected, the
\* queue is empty when it resolves, and it changes nothing but the queue (not the
\* connection state, the port or the read loops); on an empty queue it resolves at
\* once and changes nothing, so a second flush adds nothing to the first.
C24_FlushClearsQueueOnly ==
    [][/\ Issued("flush") =>
            /\ calls'[Len(calls')].st # "rejected"
            /\ calls'[Len(calls')].st = "resolved" => readBuffer' = <<>>
            /\ UNCHANGED flushFrame
            /\ IF readBuffer = <<>>
               THEN calls'[Len(calls')].st = "resolved" /\ UNCHANGED <<readBuffer, nm>>
               ELSE readBuffer' = Tail(readBuffer)
       /\ \A p \in DOMAIN calls :
            (calls[p].op = "flush" /\ calls[p].st = "pending") =>
                /\ calls'[p].st # "rejected"
                /\ calls'[p].st = "resolved" =>
                        readBuffer = <<>> /\ UNCHANGED readBuffer /\ UNCHANGED flushFrame]_vars

\* C24 happens: on a Connected session a flush discarded the bytes received (no
\* read took them) and the flush that followed found the queue empty
C24_Witness ==
    /\ isConnected
    /\ rxLog # <<>> /\ readBuffer = <<>>
    /\ \A p \in DOMAIN calls : calls[p].op # "read"
    /\ \E p \in DOMAIN calls :
            /\ p + 1 \in DOMAIN calls
            /\ calls[p].op = "flush" /\ calls[p].st = "resolved"
            /\ calls[p + 1].op = "flush" /\ calls[p + 1].st = "resolved"

\* C25: listDevices has no effect on the session: the call always completes, and it
\* changes neither the connection state nor the ports, starts no permission
\* request and no coroutine, and leaves the promise that the pending permission
\* request answers as it was.
C25_ListDevicesNoEffect ==
    [][Issued("listDevices") =>
            /\ calls'[Len(calls')].st = "resolved"
            /\ UNCHANGED <<coordVars, taskVars, threadVars, platVars, events>>]_vars

\* new Uint8Array(data)
Uint8Array(data) == [i \in DOMAIN data |-> data[i] % 256]

\* the chunks the generator of SerialTransport.read call p has yielded
Yielded(p) == IF calls[p].out = "chunk" THEN <<Uint8Array(calls[p].val)>> ELSE <<>>

\* C26: a read of SerialTransport made while its cache says connected makes exactly
\* one read call of the module (one drain when the module accepts it) and yields at
\* most one chunk: one chunk with all the bytes of the drain when there are any, no
\* chunk when there are none; rawRead makes exactly one read call of the module and
\* returns its bytes as one value, which may be empty.
C26_OneDrainOneChunk ==
    /\ [][\A op \in {"read", "rawRead"} :
            (connected /\ Issued(op) /\ calls'[Len(calls')].via = "facade") =>
                /\ calls'[Len(calls')].st # "local"
                /\ IF isConnected
                   THEN drains' = drains \cup {[p |-> Len(calls'), pc |-> "poll", res |-> <<>>]}
                   ELSE UNCHANGED drains /\ calls'[Len(calls')].code = "NOT_CONNECTED"]_vars
    /\ [](\A p \in DOMAIN calls :
            (calls[p].via = "facade" /\ calls[p].resumed /\ calls[p].st = "resolved") =>
                /\ calls[p].op = "read" =>
                        /\ Len(Yielded(p)) <= 1
                        /\ calls[p].val # <<>> => Yielded(p) = <<calls[p].val>>
                        /\ calls[p].val = <<>> => Yielded(p) = <<>>
                /\ calls[p].op = "rawRead" => calls[p].out = "returned")

\* C26 happens: a read of SerialTransport yielded one chunk with the two bytes
\* received and the next read, on the idle session, yielded nothing
C26_Witness ==
    \E p \in DOMAIN calls :
        /\ p + 1 \in DOMAIN calls
        /\ calls[p].op = "read" /\ calls[p].via = "facade"
        /\ calls[p].val = <<255, 65>> /\ Yielded(p) = <<(<<255, 65>>)>>
        /\ calls[p + 1].op = "read" /\ calls[p + 1].via = "facade"
        /\ calls[p + 1].out = "nothing" /\ Yielded(p + 1) = <<>>

\* the values that read calls have taken from the queue, returned or not yet
TakenByReads == Range(dlvLog) \cup UNION {Range(d.res) : d \in drains}

\* the i-th byte received in this session is neither queued nor taken by a read:
\* a flush discarded it
Discarded(i) ==
    /\ i \in DOMAIN rxLog
    /\ ToUnsigned(rxLog[i]) \notin TakenByReads \cup Range(Unsigned(readBuffer))

\* C27: a flush that overlaps a read in flight is atomic for that read: the bytes
\* the flush discards are one contiguous block of the received stream, so no read
\* takes a byte that was received between two bytes the flush discarded (stated for
\* the sessions in which flush was called once).
C27_FlushAtomicForRead ==
    Cardinality({p \in DOMAIN calls : calls[p].op = "flush"}) = 1 =>
        \A i, k, j \in DOMAIN rxLog :
            (i < k /\ k < j /\ Discarded(i) /\ Discarded(j))
                => ToUnsigned(rxLog[k]) \notin TakenByReads

\* C28: no byte received in one session is returned by a read of a later session:
\* whenever a connect succeeds, the queue holds no byte that was read from the
\* device before that connect, and no read loop still holds such a byte to append.
C28_NoByteAcrossSessions ==
    [][(~isConnected /\ isConnected') =>
            /\ readBuffer' = <<>>
            /\ \A j \in DOMAIN jobs : jobs[j].pc # "offer"]_vars

\* the read loops that are inside a read of a port that is open
ReadingLoops == {j \in DOMAIN jobs : jobs[j].pc = "reading" /\ ports[jobs[j].port].open}

\* C29: at most one read loop is running at any time: after a disconnect and a new
\* successful connect the loop of the earlier session does not go on iterating on
\* the new session's flag and port, so no two loops are reading from the device.
C29_AtMostOneReadLoop == Cardinality(ReadingLoops) <= 1

\* port i was opened with its parameters set and has been closed since: only a
\* disconnect closes such a port
ClosedByDisconnect(i) == ~ports[i].open /\ ports[i].baud # Null

\* C30: a disconnect that is called, or made on usb-detached, never causes an error
\* event: in every interleaving of the steps of disconnect with the read loops, no
\* loop emits the event for a read that failed on a port which such a disconnect
\* had closed (stated for the first error event: before it no read loop has
\* disconnected by itself).
C30_NoErrorEventFromDisconnect ==
    [][\A j \in DOMAIN jobs :
            (events.error = 0 /\ jobs[j].pc = "catch" /\ jobs'[j].pc = "event")
                => ~ClosedByDisconnect(jobs[j].port)]_vars

\* C31: whenever the module is Disconnected and no connect is in progress (and no
\* disconnect is between its steps), it holds no port reference and no device
\* handle is open: a connect that failed part-way through opening has released
\* what it had acquired.
C31_DisconnectedHoldsNothing ==
    (~isConnected /\ openTasks = <<>> /\ NoDisconnectInProgress)
        => (serialPort = Null /\ OpenPorts = {})

\* the read calls the module accepted
Reads == {p \in DOMAIN calls : calls[p].op = "read" /\ calls[p].code # "NOT_CONNECTED"}

\* what read call p has taken from the queue: its result, or what its coroutine
\* has gathered so far
ReadResult(p) ==
    IF calls[p].st = "resolved" THEN calls[p].val
    ELSE IF DrainOf(drains, p) # {} THEN (CHOOSE d \in DrainOf(drains, p) : TRUE).res
    ELSE <<>>

\* the bytes the read loops queued, as the values a read returns
RxBytes == [i \in DOMAIN rxLog |-> rxLog[i] % 256]

\* the place of value v among the bytes queued
RxPos(v) == CHOOSE i \in DOMAIN rxLog : RxBytes[i] = v

\* nothing but reads has taken bytes from the queue: no flush, no disconnect
OnlyReadsTake ==
    /\ \A p \in DOMAIN calls : calls[p].op \notin {"flush", "disconnect"}
    /\ events.error = 0

\* C32: when read calls overlap, every queued byte goes to exactly one of them: no
\* byte is in two results or twice in one, no byte taken from the queue is missing
\* from all of them, and each result keeps the order in which its bytes were
\* received (stated for sessions in which only reads take bytes from the queue).
C32_OverlappingReadsPartition ==
    OnlyReadsTake =>
        /\ \A p \in Reads :
                /\ Range(ReadResult(p)) \subseteq Range(RxBytes)
                /\ \A i, j \in DOMAIN ReadResult(p) :
                        i < j => RxPos(ReadResult(p)[i]) < RxPos(ReadResult(p)[j])
        /\ \A p, q \in Reads : p # q => Range(ReadResult(p)) \cap Range(ReadResult(q)) = {}
        /\ \A p \in Reads : Range(ReadResult(p)) \cap Range(Unsigned(readBuffer)) = {}
        /\ Range(RxBytes) = Range(Unsigned(readBuffer)) \cup UNION {Range(ReadResult(p)) : p \in Reads}

\* C32 happens: two reads overlapped and shared three bytes: one returned the first
\* and the third, the other the second
C32_Witness ==
    /\ OnlyReadsTake
    /\ \E p, q \in Reads :
            /\ calls[p].st = "resolved" /\ calls[p].val = <<255, 128>>
            /\ calls[q].st = "resolved" /\ calls[q].val = <<65>>


\* C33: no promise handed to the module is settled more than once, whatever the
\* method it was handed to: resolve and reject are called on it at most once in all.
C33_NoPromiseSettledTwice ==
    \A p \in DOMAIN calls : calls[p].n <= 1

=============================================================================
